---- MODULE Spec2Model ----
(***************************************************************************)
(* Agent-level credential configuration                                    *)
(* (core/framework/credentials/agent_config.py).                           *)
(*                                                                         *)
(* One agent directory holds one file, credentials.json.  Processes hold   *)
(* AgentCredentialConfig instances (an in-memory `mappings` value), load   *)
(* them from the file and save them back.  The file is a JSON text, kept   *)
(* here as a sequence of tokens: json.dumps and json.loads are modelled as *)
(* a printer and a recursive-descent parser over those tokens.             *)
(***************************************************************************)
EXTENDS Integers, Sequences, FiniteSets, TLC

VARIABLES
    dirExists,  \* agent_path exists as a directory
    file,       \* <agent_path>/credentials.json: [exists, text]
    cfg,        \* cfg[p]: the instance process p holds, or NoInstance
    pc,         \* pc[p]: where p is inside a convenience function
    call,       \* call[p]: arguments and history of p's running convenience call
    stale,      \* stale[p]: the file was written by another process since p last loaded
    lastSaved,  \* the instance written by the last save, while the file is untouched since
    op,         \* the operation executed by the last step, with its outcome
    phase,      \* SpecRace: where p is in its one run of load, mutate, save
    over        \* SpecRace: the file that the last successful save replaced

vars == <<dirExists, file, cfg, pc, call, stale, lastSaved, op, phase, over>>

-----------------------------------------------------------------------------
(* Bounds and the universe of strings.                                     *)

(* How many times a process mutates its instance between load and save in  *)
(* SpecRace.                                                               *)
MaxMutations == 2

(* How many integration ids a provider can be mapped to. *)
NumIds == 2

Procs == {1, 2}

Providers == {"google", "hubspot"}

IdNames == <<"g-id", "h-id", "x-id", "y-id">>

IntegrationIds == {IdNames[i] : i \in 1..NumIds}

(* CONFIG_FILENAME = "credentials.json": the one file of the agent directory. *)
CONFIG_FILENAME == "credentials.json"

-----------------------------------------------------------------------------
(* Python values.  Every value is a record of one shape, so that any two   *)
(* values can be compared: k is the type, s the text of a str or number or *)
(* the key of a dict entry, items the elements of a list or the entries of *)
(* a dict in insertion order (an entry holds its value as its one item).   *)

PyStr(s) == [k |-> "str", s |-> s, items |-> <<>>]

PyNum(s) == [k |-> "num", s |-> s, items |-> <<>>]

PyNone == [k |-> "none", s |-> "", items |-> <<>>]

PyTrue == [k |-> "bool", s |-> "True", items |-> <<>>]

PyFalse == [k |-> "bool", s |-> "False", items |-> <<>>]

PyBool(b) == IF b THEN PyTrue ELSE PyFalse

PyList(xs) == [k |-> "list", s |-> "", items |-> xs]

PyDict(es) == [k |-> "dict", s |-> "", items |-> es]

Ent(key, val) == [k |-> "ent", s |-> key, items |-> <<val>>]

EmptyDict == PyDict(<<>>)

IsDict(v) == v.k = "dict"

Keys(d) == {d.items[i].s : i \in 1..Len(d.items)}

HasKey(d, key) == \E i \in 1..Len(d.items) : d.items[i].s = key

Lookup(d, key) == d.items[CHOOSE i \in 1..Len(d.items) : d.items[i].s = key].items[1]

(* d[key] = val on a dict: an existing key keeps its place, a new key goes last. *)
DictSet(d, key, val) ==
    IF HasKey(d, key)
    THEN LET i == CHOOSE j \in 1..Len(d.items) : d.items[j].s = key
         IN PyDict(SubSeq(d.items, 1, i - 1) \o <<Ent(key, val)>>
                       \o SubSeq(d.items, i + 1, Len(d.items)))
    ELSE PyDict(Append(d.items, Ent(key, val)))

(* del d[key] on a dict that holds key. *)
DictDel(d, key) ==
    LET keep(e) == e.s # key
    IN PyDict(SelectSeq(d.items, keep))

(* a == b on two dicts: the same keys with the same values, in any order. *)
DictEq(a, b) ==
    /\ IsDict(a) /\ IsDict(b)
    /\ Keys(a) = Keys(b)
    /\ \A key \in Keys(a) : Lookup(a, key) = Lookup(b, key)

(* The outcome of a Python expression: the exception raised ("none" when   *)
(* it returns) and the value returned.                                     *)
Returns(v) == [exc |-> "none", v |-> v]

Raises(e) == [exc |-> e, v |-> PyNone]

(* a in b for two strings of the universe: none of them is a proper        *)
(* substring of another, and the empty string is in every string.          *)
Substring(a, b) == a = "" \/ a = b

(* key in m *)
PyContains(m, key) ==
    CASE m.k = "dict" -> Returns(PyBool(HasKey(m, key)))
      [] m.k = "list" -> Returns(PyBool(\E i \in 1..Len(m.items) : m.items[i] = PyStr(key)))
      [] m.k = "str"  -> Returns(PyBool(Substring(key, m.s)))
      [] OTHER        -> Raises("TypeError")

(* m.get(key) *)
PyGet(m, key) ==
    IF m.k = "dict"
    THEN Returns(IF HasKey(m, key) THEN Lookup(m, key) ELSE PyNone)
    ELSE Raises("AttributeError")

(* m.get(key, default) *)
PyGetDefault(m, key, default) ==
    IF m.k = "dict"
    THEN Returns(IF HasKey(m, key) THEN Lookup(m, key) ELSE default)
    ELSE Raises("AttributeError")

(* m[key] = val, key a str *)
PySetItem(m, key, val) ==
    IF m.k = "dict" THEN Returns(DictSet(m, key, val)) ELSE Raises("TypeError")

(* del m[key], key a str *)
PyDelItem(m, key) ==
    CASE m.k = "dict" -> IF HasKey(m, key) THEN Returns(DictDel(m, key)) ELSE Raises("KeyError")
      [] OTHER        -> Raises("TypeError")

RECURSIVE PairsToDict(_, _)
PairsToDict(xs, acc) ==
    IF xs = <<>> THEN acc
    ELSE PairsToDict(Tail(xs), DictSet(acc, Head(xs).items[1].s, Head(xs).items[2]))

(* dict(m): a copy of a dict; a dict built from an iterable of pairs. *)
PyDictOf(m) ==
    CASE m.k = "dict" -> Returns(PyDict(m.items))
      [] m.k = "list" ->
            LET isPair(x) == x.k = "list" /\ Len(x.items) = 2 /\ x.items[1].k = "str"
                bad == {i \in 1..Len(m.items) : ~isPair(m.items[i])}
                first == CHOOSE i \in bad : \A j \in bad : i <= j
            IN IF bad = {} THEN Returns(PairsToDict(m.items, EmptyDict))
               ELSE IF m.items[first].k \in {"none", "num", "bool"}
                    THEN Raises("TypeError")
                    ELSE Raises("ValueError")
      [] m.k = "str"  -> IF m.s = "" THEN Returns(EmptyDict) ELSE Raises("ValueError")
      [] OTHER        -> Raises("TypeError")

-----------------------------------------------------------------------------
(* JSON text: a sequence of tokens.                                        *)

Tok(t, s) == [t |-> t, s |-> s]

LBrace == Tok("{", "")
RBrace == Tok("}", "")
LBrack == Tok("[", "")
RBrack == Tok("]", "")
Colon == Tok(":", "")
Comma == Tok(",", "")
Ws == Tok("ws", "")
Junk == Tok("junk", "")

RECURSIVE Dumps(_)
RECURSIVE DumpItems(_, _)

(* The items of a non-empty list or dict, one per line, separated by commas. *)
DumpItems(xs, i) ==
    LET x == xs[i]
        one == IF x.k = "ent"
               THEN <<Ws, Tok("str", x.s), Colon>> \o Dumps(x.items[1])
               ELSE <<Ws>> \o Dumps(x)
    IN IF i = Len(xs) THEN one ELSE one \o <<Comma>> \o DumpItems(xs, i + 1)

(* json.dumps(v, indent=2) *)
Dumps(v) ==
    CASE v.k = "str"  -> <<Tok("str", v.s)>>
      [] v.k = "num"  -> <<Tok("num", v.s)>>
      [] v.k = "none" -> <<Tok("null", "")>>
      [] v.k = "bool" -> <<Tok(IF v = PyTrue THEN "true" ELSE "false", "")>>
      [] v.k = "list" -> IF v.items = <<>> THEN <<LBrack, RBrack>>
                         ELSE <<LBrack>> \o DumpItems(v.items, 1) \o <<Ws, RBrack>>
      [] v.k = "dict" -> IF v.items = <<>> THEN <<LBrace, RBrace>>
                         ELSE <<LBrace>> \o DumpItems(v.items, 1) \o <<Ws, RBrace>>

(* json.dumps(v): the same text without the line breaks. *)
DumpsCompact(v) ==
    LET notWs(t) == t # Ws
    IN SelectSeq(Dumps(v), notWs)

(* The result of a parse: ok, the value, and the index of the next token. *)
Parsed(v, next) == [ok |-> TRUE, v |-> v, next |-> next]

ParseError == [ok |-> FALSE, v |-> PyNone, next |-> 0]

RECURSIVE SkipWs(_, _)
SkipWs(toks, i) ==
    IF i <= Len(toks) /\ toks[i] = Ws THEN SkipWs(toks, i + 1) ELSE i

TokAt(toks, i, t) == i <= Len(toks) /\ toks[i].t = t

RECURSIVE ParseValue(_, _)
RECURSIVE ParseMembers(_, _, _)
RECURSIVE ParseElements(_, _, _)

(* After "{" or a ",": a "key": value pair, then "," or "}".  A repeated   *)
(* key keeps its first place and takes the last value.                     *)
ParseMembers(toks, i, acc) ==
    LET k == SkipWs(toks, i)
        c == SkipWs(toks, k + 1)
    IN IF ~(TokAt(toks, k, "str") /\ TokAt(toks, c, ":")) THEN ParseError
       ELSE LET val == ParseValue(toks, c + 1)
                e == SkipWs(toks, val.next)
                d == DictSet(acc, toks[k].s, val.v)
            IN IF ~val.ok THEN ParseError
               ELSE IF TokAt(toks, e, ",") THEN ParseMembers(toks, e + 1, d)
               ELSE IF TokAt(toks, e, "}") THEN Parsed(d, e + 1)
               ELSE ParseError

(* After "[" or a ",": a value, then "," or "]". *)
ParseElements(toks, i, acc) ==
    LET val == ParseValue(toks, i)
        e == SkipWs(toks, val.next)
    IN IF ~val.ok THEN ParseError
       ELSE IF TokAt(toks, e, ",") THEN ParseElements(toks, e + 1, Append(acc, val.v))
       ELSE IF TokAt(toks, e, "]") THEN Parsed(PyList(Append(acc, val.v)), e + 1)
       ELSE ParseError

ParseValue(toks, i) ==
    LET j == SkipWs(toks, i)
    IN CASE TokAt(toks, j, "str")   -> Parsed(PyStr(toks[j].s), j + 1)
         [] TokAt(toks, j, "num")   -> Parsed(PyNum(toks[j].s), j + 1)
         [] TokAt(toks, j, "null")  -> Parsed(PyNone, j + 1)
         [] TokAt(toks, j, "true")  -> Parsed(PyTrue, j + 1)
         [] TokAt(toks, j, "false") -> Parsed(PyFalse, j + 1)
         [] TokAt(toks, j, "{")     ->
                IF TokAt(toks, SkipWs(toks, j + 1), "}")
                THEN Parsed(EmptyDict, SkipWs(toks, j + 1) + 1)
                ELSE ParseMembers(toks, j + 1, EmptyDict)
         [] TokAt(toks, j, "[")     ->
                IF TokAt(toks, SkipWs(toks, j + 1), "]")
                THEN Parsed(PyList(<<>>), SkipWs(toks, j + 1) + 1)
                ELSE ParseElements(toks, j + 1, <<>>)
         [] OTHER                -> ParseError

(* json.loads(text): one value and nothing after it, else JSONDecodeError. *)
Loads(toks) ==
    LET val == ParseValue(toks, 1)
    IN IF val.ok /\ SkipWs(toks, val.next) = Len(toks) + 1
       THEN Returns(val.v)
       ELSE Raises("JSONDecodeError")

-----------------------------------------------------------------------------
(* The file and the instances.                                             *)

FileOf(text) == [exists |-> TRUE, text |-> text]

NoInstance == [held |-> FALSE, mappings |-> PyNone]

NoFile == [exists |-> FALSE, text |-> <<>>]

(* lastSaved: who saved, and what mappings. *)
NoSave == [held |-> FALSE, mappings |-> PyNone, by |-> 0]

(* AgentCredentialConfig(agent_path=..., mappings=m); every instance of    *)
(* the model has the one agent_path.                                       *)
Instance(m) == [held |-> TRUE, mappings |-> m]

NoCall == [provider |-> "", id |-> "", pre |-> NoFile, loadIo |-> ""]

NoOp == [proc |-> 0, name |-> "", fn |-> "", returned |-> FALSE, provider |-> "",
         id |-> "", io |-> "", exc |-> "none", ret |-> PyNone]

(* The texts credentials.json may hold before the first operation: what a  *)
(* user or another tool wrote there.                                       *)
BothMapped == PyDict(<<Ent("google", PyStr("g-id")), Ent("hubspot", PyStr("h-id"))>>)

InitialValues ==
    { PyDict(<<Ent("mappings", BothMapped)>>),
      PyDict(<<Ent("version", PyNum("1")), Ent("mappings", BothMapped)>>),
      PyDict(<<Ent("mappings", PyDict(<<Ent("hubspot", PyStr("g-id"))>>))>>),
      PyDict(<<Ent("version", PyNum("1"))>>),
      EmptyDict,
      PyDict(<<Ent("mappings", PyStr("google"))>>),
      PyDict(<<Ent("mappings", PyList(<<PyStr("google")>>))>>),
      PyDict(<<Ent("mappings", PyNone)>>),
      PyDict(<<Ent("mappings", PyDict(<<Ent("google", PyNone)>>))>>),
      PyList(<<>>),
      PyNone }

InitialTexts ==
    {DumpsCompact(v) : v \in InitialValues}
        \cup { <<Junk>>,
               <<>>,
               <<LBrace, Tok("str", "mappings"), Colon, LBrace>>,
               <<LBrace, Tok("str", "mappings"), Colon, LBrace, RBrace, RBrace, RBrace>>,
               <<LBrace, Tok("str", "mappings"), Colon, LBrace,
                     Tok("str", "google"), Colon, Tok("str", "g-id"), Comma,
                     Tok("str", "google"), Colon, Tok("str", "h-id"), RBrace, RBrace>> }

-----------------------------------------------------------------------------
(* AgentCredentialConfig: what each method computes.                       *)

(* load: the value of `mappings` the instance is built with, or the        *)
(* exception that leaves load.  io is what read_text meets.                *)
LoadResult(f, io) ==
    IF ~f.exists THEN Returns(EmptyDict)
    ELSE IF io = "read_error" THEN Returns(EmptyDict)
    ELSE LET data == Loads(f.text)
         IN IF data.exc # "none" THEN Returns(EmptyDict)
            ELSE PyGetDefault(data.v, "mappings", EmptyDict)

(* A save that writes the mappings under a misspelt key. *)
SaveDataTypo(self) == PyDict(<<Ent("mapping", self.mappings)>>)

(* save: data = {"mappings": self.mappings} *)
SaveData(self) == PyDict(<<Ent("mappings", self.mappings)>>)

(* A save that opens the file for appending: the new text follows the old. *)
SaveFileAppend(self, f, io) ==
    CASE io = "ok"          -> FileOf(f.text \o Dumps(SaveData(self)))
      [] io = "write_error" -> FileOf(f.text)
      [] OTHER              -> f

RECURSIVE DictUpdate(_, _)
DictUpdate(d, es) ==
    IF es = <<>> THEN d
    ELSE DictUpdate(DictSet(d, Head(es).s, Head(es).items[1]), Tail(es))

(* A save that merges its mappings into the mappings already on disk. *)
SaveFileMerge(self, f, io) ==
    LET old == LoadResult(f, "ok")
        merged == IF old.exc = "none" /\ IsDict(old.v) /\ IsDict(self.mappings)
                  THEN DictUpdate(old.v, self.mappings.items)
                  ELSE self.mappings
    IN CASE io = "ok"          -> FileOf(Dumps(SaveData(Instance(merged))))
         [] io = "write_error" -> FileOf(<<>>)
         [] OTHER              -> f

(* save: the file after write_text, which opens for writing (truncating)   *)
(* and then writes the text.                                               *)
SaveFile(self, f, io) ==
    CASE io = "ok"          -> FileOf(Dumps(SaveData(self)))
      [] io = "write_error" -> FileOf(<<>>)
      [] OTHER              -> f

(* A save that logs the OSError and returns. *)
SaveSwallows(io) == "none"

(* save: the OSError is logged and raised again. *)
SaveRaises(io) == IF io = "ok" THEN "none" ELSE "OSError"

(* What write_text can meet: without the directory the open fails. *)
SaveOutcomes(dir) == IF dir THEN {"ok", "open_error", "write_error"} ELSE {"open_error"}

(* What read_text can meet; an absent file is never read. *)
LoadOutcomes(f) == IF f.exists THEN {"ok", "read_error"} ELSE {"ok"}

get_integration_id(self, provider) == PyGet(self.mappings, provider)

(* A set that replaces the whole table by the one new mapping. *)
set_integration_id_clobber(self, provider, integration_id) ==
    Returns(PyDict(<<Ent(provider, PyStr(integration_id))>>))

set_integration_id(self, provider, integration_id) ==
    PySetItem(self.mappings, provider, PyStr(integration_id))

(* remove_integration: the mappings after the call, and what it returns. *)
remove_integration(self, provider) ==
    LET found == PyContains(self.mappings, provider)
    IN IF found.exc # "none" THEN [exc |-> found.exc, v |-> PyNone, m |-> self.mappings]
       ELSE IF found.v = PyTrue
            THEN LET del == PyDelItem(self.mappings, provider)
                 IN IF del.exc # "none"
                    THEN [exc |-> del.exc, v |-> PyNone, m |-> self.mappings]
                    ELSE [exc |-> "none", v |-> PyTrue, m |-> del.v]
            ELSE [exc |-> "none", v |-> PyFalse, m |-> self.mappings]

list_mappings(self) == PyDictOf(self.mappings)

has_mapping(self, provider) == PyContains(self.mappings, provider)

-----------------------------------------------------------------------------
(* The steps: one per method call.                                         *)

(* The step of process p that runs load, on its own (fn = "") or as the    *)
(* first statement of a convenience function (fn names the next step).     *)
LoadStep(p, io, fn, provider, id) ==
    LET res == LoadResult(file, io)
        ok == res.exc = "none"
    IN /\ io \in LoadOutcomes(file)
       /\ cfg' = [cfg EXCEPT ![p] = IF ok THEN Instance(res.v)
                                    ELSE IF fn = "" THEN @ ELSE NoInstance]
       /\ stale' = [stale EXCEPT ![p] = FALSE]
       /\ pc' = [pc EXCEPT ![p] = IF fn = "" \/ ~ok THEN "idle" ELSE fn]
       /\ call' = [call EXCEPT ![p] =
                      IF fn = "" \/ ~ok THEN NoCall
                      ELSE [provider |-> provider, id |-> id, pre |-> file, loadIo |-> io]]
       /\ op' = [NoOp EXCEPT !.proc = p, !.name = "load", !.fn = fn,
                             !.returned = (fn # "" /\ ~ok),
                             !.provider = provider, !.id = id,
                             !.io = io, !.exc = res.exc]
       /\ UNCHANGED <<dirExists, file, lastSaved>>

(* The step that runs save, on its own or as the last statement of         *)
(* set_integration_id_for_agent.                                           *)
SaveStep(p, io, fn) ==
    LET touched == io \in {"ok", "write_error"}
    IN /\ cfg[p].held
       /\ io \in SaveOutcomes(dirExists)
       /\ file' = SaveFile(cfg[p], file, io)
       /\ lastSaved' = CASE io = "ok"          -> [held |-> TRUE, mappings |-> cfg[p].mappings,
                                                   by |-> p]
                         [] io = "write_error" -> NoSave
                         [] OTHER              -> lastSaved
       /\ stale' = [q \in Procs |-> IF q # p /\ touched THEN TRUE ELSE stale[q]]
       /\ cfg' = [cfg EXCEPT ![p] = IF fn = "" THEN @ ELSE NoInstance]
       /\ pc' = [pc EXCEPT ![p] = "idle"]
       /\ call' = [call EXCEPT ![p] = NoCall]
       /\ op' = [NoOp EXCEPT !.proc = p, !.name = "save", !.fn = fn,
                             !.returned = (fn # ""),
                             !.provider = call[p].provider, !.id = call[p].id,
                             !.io = io, !.exc = SaveRaises(io)]
       /\ UNCHANGED dirExists

(* The step that runs set_integration_id. *)
SetStep(p, provider, id, fn) ==
    LET res == set_integration_id(cfg[p], provider, id)
        ok == res.exc = "none"
    IN /\ cfg[p].held
       /\ cfg' = [cfg EXCEPT ![p] = IF ok THEN Instance(res.v)
                                    ELSE IF fn = "" THEN @ ELSE NoInstance]
       /\ pc' = [pc EXCEPT ![p] = IF fn = "" \/ ~ok THEN "idle" ELSE fn]
       /\ call' = [call EXCEPT ![p] = IF fn = "" \/ ~ok THEN NoCall ELSE @]
       /\ op' = [NoOp EXCEPT !.proc = p, !.name = "set_integration_id", !.fn = fn,
                             !.returned = (fn # "" /\ ~ok),
                             !.provider = provider, !.id = id, !.exc = res.exc]
       /\ UNCHANGED <<dirExists, file, stale, lastSaved>>

(* The step that runs get_integration_id. *)
GetStep(p, provider, fn) ==
    LET res == get_integration_id(cfg[p], provider)
    IN /\ cfg[p].held
       /\ cfg' = [cfg EXCEPT ![p] = IF fn = "" THEN @ ELSE NoInstance]
       /\ pc' = [pc EXCEPT ![p] = "idle"]
       /\ call' = [call EXCEPT ![p] = NoCall]
       /\ op' = [NoOp EXCEPT !.proc = p, !.name = "get_integration_id", !.fn = fn,
                             !.returned = (fn # ""),
                             !.provider = provider, !.exc = res.exc, !.ret = res.v]
       /\ UNCHANGED <<dirExists, file, stale, lastSaved>>

Idle(p) == pc[p] = "idle"

(* config = AgentCredentialConfig(agent_path=...) *)
Construct(p) ==
    /\ Idle(p)
    /\ cfg' = [cfg EXCEPT ![p] = Instance(EmptyDict)]
    /\ op' = [NoOp EXCEPT !.proc = p, !.name = "__init__"]
    /\ UNCHANGED <<dirExists, file, pc, call, stale, lastSaved>>

(* config = AgentCredentialConfig.load(agent_path) *)
Load(p) == Idle(p) /\ \E io \in {"ok", "read_error"} : LoadStep(p, io, "", "", "")

(* config.save() *)
Save(p) == Idle(p) /\ \E io \in {"ok", "open_error", "write_error"} : SaveStep(p, io, "")

(* config.get_integration_id(provider) *)
Get(p) == Idle(p) /\ \E provider \in Providers : GetStep(p, provider, "")

(* A set that also writes the file. *)
SetAutosave(p) ==
    /\ Idle(p)
    /\ cfg[p].held
    /\ \E provider \in Providers, id \in IntegrationIds :
          LET res == set_integration_id(cfg[p], provider, id)
          IN /\ res.exc = "none"
             /\ cfg' = [cfg EXCEPT ![p] = Instance(res.v)]
             /\ file' = IF dirExists THEN FileOf(Dumps(SaveData(Instance(res.v)))) ELSE file
             /\ op' = [NoOp EXCEPT !.proc = p, !.name = "set_integration_id",
                                   !.provider = provider, !.id = id]
    /\ UNCHANGED <<dirExists, pc, call, stale, lastSaved>>

(* config.set_integration_id(provider, integration_id) *)
Set(p) ==
    Idle(p) /\ \E provider \in Providers, id \in IntegrationIds : SetStep(p, provider, id, "")

(* config.remove_integration(provider) *)
Remove(p) ==
    /\ Idle(p)
    /\ cfg[p].held
    /\ \E provider \in Providers :
          LET res == remove_integration(cfg[p], provider)
          IN /\ cfg' = [cfg EXCEPT ![p] = Instance(res.m)]
             /\ op' = [NoOp EXCEPT !.proc = p, !.name = "remove_integration",
                                   !.provider = provider, !.exc = res.exc, !.ret = res.v]
    /\ UNCHANGED <<dirExists, file, pc, call, stale, lastSaved>>

(* config.list_mappings() *)
ListMappings(p) ==
    /\ Idle(p)
    /\ cfg[p].held
    /\ LET res == list_mappings(cfg[p])
       IN op' = [NoOp EXCEPT !.proc = p, !.name = "list_mappings",
                             !.exc = res.exc, !.ret = res.v]
    /\ UNCHANGED <<dirExists, file, cfg, pc, call, stale, lastSaved>>

(* config.has_mapping(provider) *)
HasMapping(p) ==
    /\ Idle(p)
    /\ cfg[p].held
    /\ \E provider \in Providers :
          LET res == has_mapping(cfg[p], provider)
          IN op' = [NoOp EXCEPT !.proc = p, !.name = "has_mapping",
                                !.provider = provider, !.exc = res.exc, !.ret = res.v]
    /\ UNCHANGED <<dirExists, file, cfg, pc, call, stale, lastSaved>>

(* get_integration_id_for_agent(agent_path, provider): load, then get. *)
GetForAgentLoad(p) ==
    /\ Idle(p)
    /\ \E io \in {"ok", "read_error"}, provider \in Providers :
          LoadStep(p, io, "gfa_get", provider, "")

GetForAgentGet(p) ==
    /\ pc[p] = "gfa_get"
    /\ GetStep(p, call[p].provider, "gfa_get")

(* set_integration_id_for_agent(agent_path, provider, integration_id):     *)
(* load, then set, then save.                                              *)
SetForAgentLoad(p) ==
    /\ Idle(p)
    /\ \E io \in {"ok", "read_error"}, provider \in Providers, id \in IntegrationIds :
          LoadStep(p, io, "sfa_set", provider, id)

SetForAgentSet(p) ==
    /\ pc[p] = "sfa_set"
    /\ SetStep(p, call[p].provider, call[p].id, "sfa_save")

SetForAgentSave(p) ==
    /\ pc[p] = "sfa_save"
    /\ \E io \in {"ok", "open_error", "write_error"} : SaveStep(p, io, "sfa_save")

-----------------------------------------------------------------------------
(* Spec: one process uses every operation, in any order.                   *)

(* The one process of Spec. *)
Main == CHOOSE p \in Procs : \A q \in Procs : p <= q

InitCommon ==
    /\ cfg = [p \in Procs |-> NoInstance]
    /\ pc = [p \in Procs |-> "idle"]
    /\ call = [p \in Procs |-> NoCall]
    /\ stale = [p \in Procs |-> FALSE]
    /\ lastSaved = NoSave
    /\ op = NoOp
    /\ phase = [p \in Procs |-> [at |-> "start", n |-> 0]]
    /\ over = NoFile

Init ==
    /\ dirExists \in BOOLEAN
    /\ file \in (IF dirExists THEN {NoFile} \cup {FileOf(t) : t \in InitialTexts}
                              ELSE {NoFile})
    /\ InitCommon

(* The history of SpecRace stays as it is. *)
NoRace == UNCHANGED <<phase, over>>

Next ==
    \/ Construct(Main) /\ NoRace
    \/ Load(Main) /\ NoRace
    \/ Save(Main) /\ NoRace
    \/ Get(Main) /\ NoRace
    \/ Set(Main) /\ NoRace
    \/ Remove(Main) /\ NoRace
    \/ ListMappings(Main) /\ NoRace
    \/ HasMapping(Main) /\ NoRace
    \/ GetForAgentLoad(Main) /\ NoRace
    \/ GetForAgentGet(Main) /\ NoRace
    \/ SetForAgentLoad(Main) /\ NoRace
    \/ SetForAgentSet(Main) /\ NoRace
    \/ SetForAgentSave(Main) /\ NoRace

Spec == Init /\ [][Next]_vars

-----------------------------------------------------------------------------
(* SpecRace: two processes on the same agent_path, with no lock.  Each     *)
(* runs once: load, mutate, save on an instance, or one call of            *)
(* set_integration_id_for_agent.  Every step is one method call; the       *)
(* steps of the two processes interleave in every order.                   *)

InPhase(p, at) == phase[p].at = at

Goto(p, at, n) == phase' = [phase EXCEPT ![p] = [at |-> at, n |-> n]]

RaceTexts ==
    { DumpsCompact(PyDict(<<Ent("version", PyNum("1")),
                            Ent("mappings", PyDict(<<Ent("hubspot", PyStr("h-id"))>>))>>)) }

InitRace ==
    /\ dirExists = TRUE
    /\ file \in {NoFile} \cup {FileOf(t) : t \in RaceTexts}
    /\ InitCommon

(* After a step that was a successful save, the file it replaced. *)
Replaced == over' = IF op'.name = "save" /\ op'.exc = "none" THEN file ELSE over

RaceLoad(p) ==
    /\ InPhase(p, "start")
    /\ Load(p)
    /\ Goto(p, IF cfg'[p].held THEN "loaded" ELSE "done", 0)
    /\ Replaced

RaceMutate(p) ==
    /\ InPhase(p, "loaded")
    /\ phase[p].n < MaxMutations
    /\ Set(p) \/ Remove(p)
    /\ Goto(p, "loaded", phase[p].n + 1)
    /\ Replaced

RaceSave(p) ==
    /\ InPhase(p, "loaded")
    /\ Save(p)
    /\ Goto(p, "done", phase[p].n)
    /\ Replaced

RaceSetForAgent(p) ==
    /\ \/ InPhase(p, "start") /\ SetForAgentLoad(p)
       \/ InPhase(p, "wrapper") /\ SetForAgentSet(p)
       \/ InPhase(p, "wrapper") /\ SetForAgentSave(p)
    /\ Goto(p, IF pc'[p] = "idle" THEN "done" ELSE "wrapper", 0)
    /\ Replaced

NextRace ==
    \E p \in Procs :
        \/ RaceLoad(p)
        \/ RaceMutate(p)
        \/ RaceSave(p)
        \/ RaceSetForAgent(p)

SpecRace == InitRace /\ [][NextRace]_vars

-----------------------------------------------------------------------------
(* Properties.                                                             *)

(* The instance of the process that ran the last operation. *)
Self == cfg[op.proc]

(* The file holds a JSON object whose "mappings" is an object. *)
ValidFile(f) ==
    /\ f.exists
    /\ LET data == Loads(f.text)
       IN /\ data.exc = "none"
          /\ IsDict(data.v)
          /\ HasKey(data.v, "mappings")
          /\ IsDict(Lookup(data.v, "mappings"))

MappingsIn(f) == Lookup(Loads(f.text).v, "mappings")

(* C1: load never raises and always returns an instance, whatever          *)
(* credentials.json is: absent, unreadable, malformed, or well-formed JSON *)
(* of any shape; in the first three cases the mapping is empty.            *)
C1_LoadNeverRaises ==
    op.name = "load" =>
        /\ op.exc = "none"
        /\ Self.held
        /\ (~file.exists \/ op.io = "read_error" \/ Loads(file.text).exc # "none")
              => Self.mappings = EmptyDict

(* C2: when credentials.json parses as a JSON object, load returns the     *)
(* value of its "mappings" key if that value is a mapping, and the empty   *)
(* mapping if the key is absent or its value is not a mapping.             *)
C2_LoadExtractsMappings ==
    (/\ op.name = "load"
     /\ file.exists
     /\ op.io = "ok"
     /\ Loads(file.text).exc = "none"
     /\ IsDict(Loads(file.text).v))
    => LET data == Loads(file.text).v
       IN /\ op.exc = "none"
          /\ Self.mappings =
                IF HasKey(data, "mappings") /\ IsDict(Lookup(data, "mappings"))
                THEN Lookup(data, "mappings")
                ELSE EmptyDict

(* The instance that load returned lists the mappings that were saved. *)
ListsWhatWasSaved ==
    /\ op.exc = "none"
    /\ list_mappings(Self).exc = "none"
    /\ DictEq(list_mappings(Self).v, list_mappings(Instance(lastSaved.mappings)).v)

(* A load that follows a successful save of an instance whose              *)
(* list_mappings() returns, with no write of the file in between.          *)
LoadAfterSave ==
    /\ op.name = "load"
    /\ lastSaved.held
    /\ list_mappings(Instance(lastSaved.mappings)).exc = "none"

(* C3, as claimed: after a save that succeeded and with no writer since,   *)
(* load returns an instance whose list_mappings() equals the saved         *)
(* instance's list_mappings() at the time of the save.                     *)
C3_RoundTrip_Claimed == LoadAfterSave => ListsWhatWasSaved

(* C3, amended: the same, provided load reads the file without an I/O      *)
(* failure.                                                                *)
C3_RoundTrip == (LoadAfterSave /\ op.io = "ok") => ListsWhatWasSaved

C3_Witness ==
    /\ op.name = "load"
    /\ op.io = "ok"
    /\ lastSaved.held
    /\ IsDict(lastSaved.mappings)
    /\ Keys(lastSaved.mappings) = Providers
    /\ lastSaved.mappings.items[1].s = "hubspot"

(* C4: after a successful save the parsed content of credentials.json is   *)
(* exactly {"mappings": <the in-memory mapping>}, whatever the file held   *)
(* before.                                                                 *)
C4_SaveWritesExactlyMappings ==
    [][(op'.name = "save" /\ op'.exc = "none")
        => /\ file'.exists
           /\ Loads(file'.text) = Returns(PyDict(<<Ent("mappings", cfg[op'.proc].mappings)>>))
      ]_vars

C4_Witness ==
    /\ op.name = "save"
    /\ op.exc = "none"
    /\ op.fn = ""
    /\ ValidFile(over)
    /\ HasKey(Loads(over.text).v, "version")
    /\ HasKey(MappingsIn(over), "hubspot")
    /\ IsDict(Self.mappings)
    /\ Keys(Self.mappings) = {"google"}
    /\ Loads(file.text) = Returns(PyDict(<<Ent("mappings", Self.mappings)>>))

(* C5: only save changes the file: every other operation leaves the        *)
(* content and the existence of credentials.json (and of agent_path) as    *)
(* they were.                                                              *)
C5_OnlySaveWrites ==
    [][op'.name # "save" => (file' = file /\ dirExists' = dirExists)]_vars

C5_Witness ==
    /\ op.name = "set_integration_id"
    /\ op.exc = "none"
    /\ lastSaved.held
    /\ file = FileOf(Dumps(SaveData(Instance(lastSaved.mappings))))
    /\ Self.mappings # lastSaved.mappings

(* C6: a save that meets an I/O failure (a missing agent_path included)    *)
(* raises it to the caller, does not create agent_path and leaves the      *)
(* instance's mapping unchanged.                                           *)
C6_SaveFailurePropagates ==
    [][(op'.name = "save" /\ (op'.io # "ok" \/ ~dirExists))
        => /\ op'.exc = "OSError"
           /\ dirExists' = dirExists
           /\ op'.fn = "" => cfg'[op'.proc] = cfg[op'.proc]
           /\ ~dirExists => ~file'.exists
      ]_vars

C6_Witness ==
    /\ op.name = "save"
    /\ op.exc = "OSError"
    /\ ~dirExists
    /\ ~file.exists
    /\ IsDict(Self.mappings)
    /\ Self.mappings # EmptyDict

(* C7: remove_integration(provider) returns true exactly when provider was *)
(* mapped before the call; afterwards provider is unmapped, every other    *)
(* provider is mapped as before, and a repeated call returns false and     *)
(* changes nothing.                                                        *)
C7_RemoveIntegration ==
    [][op'.name = "remove_integration"
        => LET before == cfg[op'.proc]
               after == cfg'[op'.proc]
               provider == op'.provider
           IN /\ op'.exc = "none"
              /\ op'.ret = PyTrue <=> has_mapping(before, provider) = Returns(PyTrue)
              /\ op'.ret = PyFalse <=> has_mapping(before, provider) = Returns(PyFalse)
              /\ get_integration_id(after, provider) = Returns(PyNone)
              /\ has_mapping(after, provider) = Returns(PyFalse)
              /\ \A other \in Providers \ {provider} :
                    /\ get_integration_id(after, other) = get_integration_id(before, other)
                    /\ has_mapping(after, other) = has_mapping(before, other)
              /\ remove_integration(after, provider)
                    = [exc |-> "none", v |-> PyFalse, m |-> after.mappings]
      ]_vars

(* What C8 promises of the file left by p's call: reading it gives id for *)
(* provider, and the other providers of a valid earlier file are kept.     *)
SetForAgentPersists(p) ==
    LET before == call[p].pre
        provider == call[p].provider
        got == LoadResult(file', "ok")
    IN /\ got.exc = "none"
       /\ get_integration_id(Instance(got.v), provider) = Returns(PyStr(call[p].id))
       /\ ValidFile(before) =>
             \A other \in Keys(MappingsIn(before)) \ {provider} :
                 /\ ValidFile(file')
                 /\ HasKey(MappingsIn(file'), other)
                 /\ Lookup(MappingsIn(file'), other) = Lookup(MappingsIn(before), other)

(* The step on which p's set_integration_id_for_agent returns without error. *)
SetForAgentReturns(p) ==
    /\ pc[p] = "sfa_save"
    /\ op'.proc = p
    /\ op'.name = "save"
    /\ op'.exc = "none"

AllDone == \A p \in Procs : phase[p].at = "done"

(* C9: last save wins: whatever the interleaving, the file holds the       *)
(* mapping of the process whose save() ran last, and so an update saved    *)
(* first by a process is lost when the other process loaded before it.     *)
C9_LastSaveWins ==
    lastSaved.held =>
        /\ file.exists
        /\ Loads(file.text) = Returns(PyDict(<<Ent("mappings", lastSaved.mappings)>>))
        /\ (AllDone /\ cfg[lastSaved.by].held)
              => cfg[lastSaved.by].mappings = lastSaved.mappings

(* The lost update: both processes loaded before either saved, both saves  *)
(* succeeded, and a provider the first saver wrote is not in the file.     *)
C9_Witness ==
    /\ AllDone
    /\ lastSaved.held
    /\ \A p \in Procs : stale[p] /\ cfg[p].held /\ IsDict(cfg[p].mappings)
    /\ \E q \in Procs \ {lastSaved.by} :
          /\ over = FileOf(Dumps(SaveData(cfg[q])))
          /\ \E x \in Providers :
                /\ HasKey(cfg[q].mappings, x)
                /\ ValidFile(file)
                /\ ~HasKey(MappingsIn(file), x)

(* C10: on every instance get_integration_id(provider) returns the absent  *)
(* indicator exactly when has_mapping(provider) is false, and otherwise    *)
(* the stored value; neither call changes the mapping.                     *)
C10_GetAgreesWithHas ==
    [][(op'.name \in {"get_integration_id", "has_mapping"} /\ op'.fn = "")
        => LET self == cfg[op'.proc]
               got == get_integration_id(self, op'.provider)
               has == has_mapping(self, op'.provider)
           IN /\ cfg' = cfg
              /\ op'.exc = "none"
              /\ got.exc = "none" /\ has.exc = "none"
              /\ op'.ret = (IF op'.name = "has_mapping" THEN has.v ELSE got.v)
              /\ got.v = PyNone <=> has.v = PyFalse
              /\ has.v = PyTrue => got.v = Lookup(self.mappings, op'.provider)
      ]_vars

====
